---- MODULE Spec2Model ----
(***************************************************************************)
(* Model of src/model/graph_embedder.py: GraphEmbedderConfig, and          *)
(* GraphEmbedder.build_model / get_context / embed_path / pass_message /   *)
(* update_utterance; and of src/basic/controller.py: BaseController.step   *)
(* and BaseController.set_inactive called from concurrent threads.         *)
(*                                                                         *)
(* Tensors are sequences: a vector is a sequence of integers, a matrix a   *)
(* sequence of row vectors, a batched tensor a sequence of matrices.  The  *)
(* code indexes from 0 and TLA+ sequences from 1, so row i of the code is  *)
(* element i + 1 here.  Floating point values are modelled by integers.    *)
(***************************************************************************)
EXTENDS Integers, Sequences, FiniteSets, TLC

VARIABLES
    pc,                  \* position of the caller
    err,                 \* the error raised, "" when none
    config,              \* the GraphEmbedderConfig object, <<>> before construction
    edge_embedding,      \* GraphEmbedder.edge_embedding: its shape, and its value
    entity_embedding,    \* GraphEmbedder.entity_embedding: the same
    context_initialized, \* GraphEmbedder.context_initialized
    weights,             \* the variables batch_linear creates in get_context
    input_data,          \* the fed placeholders of build_model
    utterances,          \* the utterances argument of get_context / the cache
    initial_node_embed,  \* get_context: initial_node_embed
    node_embeds,         \* get_context: the outputs of tf.scan so far
    messages,            \* the path embeddings of each scan step
    context,             \* get_context: context
    n_lookups,           \* number of entity embedding lookups issued so far
    upd_args,            \* arguments of the last update_utterance call
    n_updates,           \* number of update_utterance calls so far
    lock,                \* BaseController.lock: None when free, else its holder
    lists,               \* the list objects created so far, by identity
    sessions,            \* BaseController.sessions: the identity of a list
    events,              \* BaseController.events
    callbacks,           \* the events event_callback was called with, in order
    received,            \* the calls of Session.receive, in order
    n_sent,              \* number of events the sessions' send returned so far
    n_calls,             \* number of step / set_inactive calls made so far
    tpc,                 \* each thread's position
    frame,               \* each thread's local variables
    outcome              \* how each thread's last call of step ended

embedderVars == <<pc, err, config, edge_embedding, entity_embedding, context_initialized,
                  weights, input_data, utterances, initial_node_embed, node_embeds,
                  messages, context, n_lookups, upd_args, n_updates>>

controllerVars == <<lock, lists, sessions, events, callbacks, received, n_sent,
                    n_calls, tpc, frame, outcome>>

vars == <<embedderVars, controllerVars>>

(***************************************************************************)
(* Bounds of the model.                                                    *)
(***************************************************************************)
MaxNodeEmbedSize == 2
MaxMpIters == 2
MaxBatchSize == 2
NumNodes == 2
NumNeighbors == 2
MaxUpdates == 2
NumThreads == 2
MaxCalls == 3
MaxEvents == 2

\* An optional argument: None is the empty sequence, a value v is <<v>>.
None == <<>>
Some(v) == <<v>>

(***************************************************************************)
(* Arithmetic on vectors.                                                  *)
(***************************************************************************)
RECURSIVE SumSeq(_)
SumSeq(s) == IF s = <<>> THEN 0 ELSE Head(s) + SumSeq(Tail(s))

Dot(x, y) == SumSeq([i \in 1..Len(x) |-> x[i] * y[i]])

Zeros(n) == [i \in 1..n |-> 0]

VecAdd(x, y) == [i \in 1..Len(x) |-> x[i] + y[i]]

VecScale(k, x) == [i \in 1..Len(x) |-> k * x[i]]

\* the same sequence, with every element evaluated
Seq1(v) == v \o <<>>

RECURSIVE Flatten(_)
Flatten(ss) == IF ss = <<>> THEN <<>> ELSE Head(ss) \o Flatten(Tail(ss))

RECURSIVE AddN(_)
AddN(vs) == IF Len(vs) = 1 THEN Head(vs) ELSE VecAdd(Head(vs), AddN(Tail(vs)))

\* tf.to_float of a boolean
to_float(b) == IF b THEN 1 ELSE 0

\* tanh: odd, monotone, tanh(0) = 0 and bounded by 1 in absolute value
tanh(x) == IF x > 0 THEN 1 ELSE IF x < 0 THEN 0 - 1 ELSE 0

(***************************************************************************)
(* util.batch_embedding_lookup, tf.nn.embedding_lookup, util.batch_linear  *)
(***************************************************************************)
\* embeddings: (batch, rows, d), indices: (batch, n) -> (batch, n, d)
batch_embedding_lookup(embeddings, indices) ==
    [b \in 1..Len(indices) |->
        [i \in 1..Len(indices[b]) |-> embeddings[b][indices[b][i] + 1]]]

\* table: (rows, d), ids: (batch, n) -> (batch, n, d)
embedding_lookup(table, ids) ==
    [b \in 1..Len(ids) |-> [i \in 1..Len(ids[b]) |-> table[ids[b][i] + 1]]]

\* args: tensors (batch, n, d_k); w.matrix: one column per output, w.bias
batch_linear(args, w) ==
    Seq1([b \in 1..Len(args[1]) |->
        Seq1([i \in 1..Len(args[1][b]) |->
            LET x == Flatten([k \in 1..Len(args) |-> args[k][b][i]])
            IN  Seq1([j \in 1..Len(w.bias) |-> Dot(x, w.matrix[j]) + w.bias[j]])])])

(***************************************************************************)
(* The values a session's initializer gives the variables: a small family  *)
(* of tables indexed by a seed, with entries in -1..1.                     *)
(***************************************************************************)
Seeds == {0, 1}

Entry(seed, i, j) == ((seed + i + 2 * j) % 3) - 1

Table(seed, rows, cols) == [i \in 1..rows |-> [j \in 1..cols |-> Entry(seed, i, j)]]

\* the weight and bias of a linear layer from in_size inputs to out_size outputs
LinearVars(seed, in_size, out_size) ==
    [matrix |-> [j \in 1..out_size |-> [i \in 1..in_size |-> Entry(seed, i, j)]],
     bias   |-> [j \in 1..out_size |-> Entry(seed + 1, j, j)]]

(***************************************************************************)
(* GraphEmbedderConfig.__init__                                            *)
(***************************************************************************)
\* the graph_metadata argument
graph_metadata ==
    [relation_map_size |-> 2, utterance_size |-> 2, entity_cache_size |-> 2,
     feat_size |-> 1, entity_map_size |-> 2, PAD_PATH_ID |-> 0, NODE_PAD |-> 0]

edge_embed_size == 1

Combiners == {"concat", "sum", "mean"}

\* a context size that leaves out the initial embedding
ContextSizeNoInitial(node_embed_size, mp_iters, message_combiner) ==
    IF message_combiner = "concat" THEN node_embed_size * mp_iters
    ELSE node_embed_size

\* lines 34-39: the context size of a known combiner
ContextSize(node_embed_size, mp_iters, message_combiner) ==
    IF message_combiner = "concat" THEN node_embed_size * (mp_iters + 1)
    ELSE node_embed_size

\* a constructor that accepts every combiner
ConfigRaisesNever(message_combiner) == FALSE

\* lines 34-39: whether the constructor raises ValueError('Unknown message combiner')
ConfigRaises(message_combiner) == message_combiner \notin {"concat", "sum"}

\* lines 41-44: the attributes set only when use_entity_embedding
EntityFields(use_entity_embedding, entity_embed_size) ==
    IF use_entity_embedding
    THEN [num_entities |-> graph_metadata.entity_map_size,
          entity_embed_size |-> entity_embed_size]
    ELSE <<>>

GraphEmbedderConfig(node_embed_size, entity_embed_size, use_entity_embedding, mp_iters, message_combiner, batch_size) ==
    [node_embed_size |-> node_embed_size,
     num_edge_labels |-> graph_metadata.relation_map_size,
     edge_embed_size |-> edge_embed_size,
     utterance_size |-> graph_metadata.utterance_size,
     entity_cache_size |-> graph_metadata.entity_cache_size,
     feat_size |-> graph_metadata.feat_size,
     mp_iters |-> mp_iters,
     message_combiner |-> message_combiner,
     context_size |-> ContextSize(node_embed_size, mp_iters, message_combiner),
     use_entity_embedding |-> use_entity_embedding,
     entity |-> EntityFields(use_entity_embedding, entity_embed_size),
     batch_size |-> batch_size,
     pad_path_id |-> graph_metadata.PAD_PATH_ID,
     node_pad |-> graph_metadata.NODE_PAD]

(***************************************************************************)
(* BaseController.__init__                                                 *)
(***************************************************************************)
\* the threads that call the controller's methods
Threads == 1..NumThreads

\* the local variables of a thread that is in no call
NoFrame == [op |-> "", agents |-> None, iter |-> 0, agent |-> 0, event |-> None,
            inner |-> 0, partner |-> 0]

\* lines 11-21: a free lock, the given list of two sessions, an empty log.
\* A session object is Some(i), i the agent it speaks for.
ControllerInit ==
    /\ lock = None
    /\ lists = << <<Some(0), Some(1)>> >>
    /\ sessions = 1
    /\ events = <<>>
    /\ callbacks = <<>>
    /\ received = <<>>
    /\ n_sent = 0
    /\ n_calls = 0
    /\ tpc = [t \in Threads |-> "idle"]
    /\ frame = [t \in Threads |-> NoFrame]
    /\ outcome = [t \in Threads |-> ""]

Init ==
    /\ pc = "start"
    /\ err = ""
    /\ config = <<>>
    /\ edge_embedding = <<>>
    /\ entity_embedding = <<>>
    /\ context_initialized = FALSE
    /\ weights = <<>>
    /\ input_data = <<>>
    /\ utterances = <<>>
    /\ initial_node_embed = <<>>
    /\ node_embeds = <<>>
    /\ messages = <<>>
    /\ context = <<>>
    /\ n_lookups = 0
    /\ upd_args = <<>>
    /\ n_updates = 0
    /\ ControllerInit

\* GraphEmbedderConfig(...): the object, or ValueError and no object
ConfigInit ==
    /\ pc = "start"
    /\ \E node_embed_size \in 1..MaxNodeEmbedSize, mp_iters \in 0..MaxMpIters,
          message_combiner \in Combiners, use_entity_embedding \in BOOLEAN,
          entity_embed_size \in {None, Some(1)}, batch_size \in 1..MaxBatchSize :
          IF ConfigRaises(message_combiner)
          THEN /\ pc' = "config_error"
               /\ err' = "Unknown message combiner"
               /\ config' = config
          ELSE /\ pc' = "configured"
               /\ err' = err
               /\ config' = GraphEmbedderConfig(node_embed_size, entity_embed_size,
                                use_entity_embedding, mp_iters, message_combiner,
                                batch_size)
    /\ UNCHANGED <<edge_embedding, entity_embedding, context_initialized, weights,
                   input_data, utterances, initial_node_embed, node_embeds,
                   messages, context, n_lookups, upd_args, n_updates>>
    /\ UNCHANGED controllerVars

(***************************************************************************)
(* GraphEmbedder.__init__ / build_model.  tf.get_variable creates a        *)
(* variable of a shape; the variable has no value until the session        *)
(* initializes it.                                                         *)
(***************************************************************************)
Variable(rows, cols) == [shape |-> <<rows, cols>>, value |-> <<>>]

Initialized(var, seed) ==
    IF var = <<>> THEN var
    ELSE [var EXCEPT !.value = Table(seed, var.shape[1], var.shape[2])]

\* tf.get_variable needs a fully defined shape: a None dimension raises
ShapeDefined(entity_embed_size) == entity_embed_size # None

\* a build_model that creates no entity table
BuildsEntityTableNever(cfg) == FALSE

\* lines 67-69: whether build_model creates the entity table
BuildsEntityTable(cfg) == cfg.use_entity_embedding

BuildModel ==
    /\ pc = "configured"
    /\ edge_embedding' = Variable(config.num_edge_labels, config.edge_embed_size)
    /\ IF BuildsEntityTable(config)
       THEN IF ShapeDefined(config.entity.entity_embed_size)
            THEN /\ entity_embedding' = Variable(config.entity.num_entities,
                                                 config.entity.entity_embed_size[1])
                 /\ pc' = "built"
                 /\ err' = err
            ELSE /\ entity_embedding' = entity_embedding
                 /\ pc' = "build_error"
                 /\ err' = "Shape of a new variable must be fully defined"
       ELSE /\ entity_embedding' = entity_embedding
            /\ pc' = "built"
            /\ err' = err
    /\ UNCHANGED <<config, context_initialized, weights, input_data, utterances,
                   initial_node_embed, node_embeds, messages, context, n_lookups,
                   upd_args, n_updates>>
    /\ UNCHANGED controllerVars

(***************************************************************************)
(* The batches fed to the placeholders of build_model (lines 72-97) and    *)
(* the utterances given to get_context: a small family.  Every graph has   *)
(* NumNodes node slots, NumNeighbors neighbor slots per node and three     *)
(* paths: the padding path, a path and its reverse.                        *)
(***************************************************************************)
NumRows == NumNodes + 1

\* the first k slots hold a node, the others are padding
Masks == {[i \in 1..NumNodes |-> i <= k] : k \in 0..NumNodes}

\* (node_id, edge_label, node_id)
PathTriples ==
    {<<(t + l + 1) % NumNodes, l, t>> : l \in 0..(graph_metadata.relation_map_size - 1),
                                        t \in 0..(NumNodes - 1)}

PadPath == <<graph_metadata.NODE_PAD, 0, graph_metadata.NODE_PAD>>

ReversePath(p) == <<p[3], (p[2] + 1) % graph_metadata.relation_map_size, p[1]>>

AllPad == [k \in 1..NumNeighbors |-> graph_metadata.PAD_PATH_ID]

NeighborLists ==
    { AllPad,
      [k \in 1..NumNeighbors |-> IF k = 1 THEN 1 ELSE graph_metadata.PAD_PATH_ID],
      [k \in 1..NumNeighbors |-> IF k = NumNeighbors THEN 2 ELSE graph_metadata.PAD_PATH_ID],
      [k \in 1..NumNeighbors |-> 1],
      [k \in 1..NumNeighbors |-> ((k - 1) % 2) + 1] }

\* slot i of batch element b reads slot Rot(i, b) of the chosen graph
Rot(i, b) == ((i + b - 2) % NumNodes) + 1

Batch(batch_size, m, p, nl) ==
    [node_ids   |-> [b \in 1..batch_size |->
                        [i \in 1..NumNodes |-> (i + b + p[2]) % NumRows]],
     mask       |-> [b \in 1..batch_size |-> [i \in 1..NumNodes |-> m[Rot(i, b)]]],
     entity_ids |-> [b \in 1..batch_size |->
                        [i \in 1..NumNodes |-> (i + b + p[2]) % graph_metadata.entity_map_size]],
     paths      |-> [b \in 1..batch_size |->
                        LET q == <<(p[1] + b - 1) % NumNodes,
                                   (p[2] + b - 1) % graph_metadata.relation_map_size,
                                   (p[3] + b - 1) % NumNodes>>
                        IN  <<PadPath, q, ReversePath(q)>>],
     node_paths |-> [b \in 1..batch_size |->
                        [i \in 1..NumNodes |-> IF Rot(i, b) = 1 THEN nl ELSE AllPad]],
     node_feats |-> [b \in 1..batch_size |->
                        [i \in 1..NumNodes |->
                            [f \in 1..graph_metadata.feat_size |-> (i + b + f + p[2]) % 2]]]]

UtteranceTable(seed, batch_size) ==
    [b \in 1..batch_size |-> Table(seed + b, NumRows, graph_metadata.utterance_size)]

(***************************************************************************)
(* GraphEmbedder.embed_path, lines 141-153                                 *)
(***************************************************************************)
\* paths[:, :, f]
PathField(paths, f) == [b \in 1..Len(paths) |-> [p \in 1..Len(paths[b]) |-> paths[b][p][f + 1]]]

\* line 149: paths[:, :, 1], the edge labels
EdgeLabels(paths) == PathField(paths, 1)

\* paths[:, :, 0], the first field of the triples
TargetIdsFirst(paths) == PathField(paths, 0)

\* line 150: paths[:, :, 2], the nodes whose embeddings are gathered
TargetIds(paths) == PathField(paths, 2)

MapTanh(t) ==
    Seq1([b \in 1..Len(t) |-> Seq1([i \in 1..Len(t[b]) |->
        Seq1([d \in 1..Len(t[b][i]) |-> tanh(t[b][i][d])])])])

embed_path(node_embedding, edge_embedding_, paths) ==
    LET edge_embeds == embedding_lookup(edge_embedding_.value, EdgeLabels(paths))
        node_embeds_ == batch_embedding_lookup(node_embedding, TargetIds(paths))
    IN  MapTanh(batch_linear(<<edge_embeds, node_embeds_>>, weights.path))

(***************************************************************************)
(* GraphEmbedder.pass_message, lines 155-196                               *)
(***************************************************************************)
\* a pass_message that keeps the padded neighbors
NeighborMaskNone(neighbor, padded_path) == 1

\* line 167: the mask of one neighbor entry
NeighborMask(neighbor, padded_path) == to_float(neighbor # padded_path)

pass_message(path_embeds, neighbors, padded_path) ==
    Seq1([b \in 1..Len(neighbors) |->
        LET num_nodes == Len(neighbors[b])
            flat == Flatten(neighbors[b])
            num_neighbors == Len(flat) \div num_nodes
            embeds == batch_embedding_lookup(path_embeds, [x \in 1..Len(neighbors) |->
                          Flatten(neighbors[x])])[b]
            path_embed_size == Len(path_embeds[b][1])
        IN  Seq1([n \in 1..num_nodes |->
                Seq1([d \in 1..path_embed_size |->
                    SumSeq([k \in 1..num_neighbors |->
                        embeds[(n - 1) * num_neighbors + k][d]
                            * NeighborMask(neighbors[b][n][k], padded_path)])])])])

(***************************************************************************)
(* GraphEmbedder.get_context, lines 102-139                                *)
(***************************************************************************)
\* lines 114-117: the initial node embedding
InitialNodeEmbed(cfg, data, utts, entity_table, w) ==
    IF cfg.use_entity_embedding
    THEN batch_linear(<<embedding_lookup(entity_table.value, data.entity_ids),
                        batch_embedding_lookup(utts, data.node_ids),
                        data.node_feats>>, w)
    ELSE batch_linear(<<batch_embedding_lookup(utts, data.node_ids),
                        data.node_feats>>, w)

\* lines 121-123: one step of message passing
mp(curr_node_embedding, data, cfg) ==
    pass_message(embed_path(curr_node_embedding, edge_embedding, data.paths),
                 data.node_paths, cfg.pad_path_id)

\* a scan that restarts every step from the initializer
ScanCarryInitial(initial, outputs) == initial

\* the carry of tf.scan: the initializer, then the last output
ScanCarry(initial, outputs) ==
    IF outputs = <<>> THEN initial ELSE outputs[Len(outputs)]

\* a list that holds the initializer twice
EmbedListTwice(initial, outputs) == <<initial, initial>> \o outputs

\* lines 128-131: [initial_node_embed] + tf.unpack(node_embeds, axis=0)
EmbedList(initial, outputs) == <<initial>> \o outputs

\* line 129: tf.concat(2, ...)
Concat2(ts) ==
    [b \in 1..Len(ts[1]) |-> [i \in 1..Len(ts[1][b]) |->
        Flatten([k \in 1..Len(ts) |-> ts[k][b][i]])]]

\* line 131: tf.add_n(...)
AddNTensors(ts) ==
    [b \in 1..Len(ts[1]) |-> [i \in 1..Len(ts[1][b]) |->
        AddN([k \in 1..Len(ts) |-> ts[k][b][i]])]]

\* a get_context that leaves the padded rows as they are
MaskRowsNone(ctx, mask) == ctx

\* line 136: context * tf.to_float(tf.expand_dims(mask, 2))
MaskRows(ctx, mask) ==
    [b \in 1..Len(ctx) |-> [i \in 1..Len(ctx[b]) |->
        VecScale(to_float(mask[b][i]), ctx[b][i])]]

\* the number of entity embedding lookups one get_context issues
EntityLookups(cfg) == IF cfg.use_entity_embedding THEN 1 ELSE 0

InputSize(cfg) ==
    cfg.utterance_size + cfg.feat_size
        + (IF cfg.use_entity_embedding THEN cfg.entity.entity_embed_size[1] ELSE 0)

\* lines 102-118: the two linear layers are created, the session gives every
\* variable its value, the placeholders are fed and the initial node embedding
\* is computed
GetContextInit ==
    /\ pc = "built"
    /\ \E seed \in Seeds, m \in Masks, p \in PathTriples, nl \in NeighborLists :
          LET data == Batch(config.batch_size, m, p, nl)
              utts == UtteranceTable(seed, config.batch_size)
              w == [init |-> LinearVars(seed, InputSize(config), config.node_embed_size),
                    path |-> LinearVars(seed + 1,
                                 config.edge_embed_size + config.node_embed_size,
                                 config.node_embed_size)]
          IN  /\ input_data' = data
              /\ utterances' = utts
              /\ weights' = w
              /\ edge_embedding' = Initialized(edge_embedding, seed)
              /\ entity_embedding' = Initialized(entity_embedding, seed + 1)
              /\ initial_node_embed' =
                     InitialNodeEmbed(config, data, utts, entity_embedding', w.init)
    /\ n_lookups' = n_lookups + EntityLookups(config)
    /\ node_embeds' = <<>>
    /\ messages' = <<>>
    /\ pc' = "scan"
    /\ UNCHANGED <<err, config, context_initialized, context, upd_args, n_updates>>
    /\ UNCHANGED controllerVars

\* lines 124-126: one iteration of tf.scan over tf.range(0, mp_iters)
MpStep ==
    /\ pc = "scan"
    /\ Len(node_embeds) < config.mp_iters
    /\ LET curr == ScanCarry(initial_node_embed, node_embeds)
       IN  /\ messages' = Append(messages, embed_path(curr, edge_embedding, input_data.paths))
           /\ node_embeds' = Append(node_embeds, mp(curr, input_data, config))
    /\ UNCHANGED <<pc, err, config, edge_embedding, entity_embedding, context_initialized,
                   weights, input_data, utterances, initial_node_embed, context,
                   n_lookups, upd_args, n_updates>>
    /\ UNCHANGED controllerVars

\* lines 128-133: combine the embeddings of all iterations
Combine ==
    /\ pc = "scan"
    /\ Len(node_embeds) = config.mp_iters
    /\ IF config.message_combiner = "concat"
       THEN /\ context' = Concat2(EmbedList(initial_node_embed, node_embeds))
            /\ pc' = "combined"
            /\ err' = err
       ELSE IF config.message_combiner = "sum"
       THEN /\ context' = AddNTensors(EmbedList(initial_node_embed, node_embeds))
            /\ pc' = "combined"
            /\ err' = err
       ELSE /\ context' = context
            /\ pc' = "context_error"
            /\ err' = "Unknown message combining method"
    /\ UNCHANGED <<config, edge_embedding, entity_embedding, context_initialized,
                   weights, input_data, utterances, initial_node_embed, node_embeds,
                   messages, n_lookups, upd_args, n_updates>>
    /\ UNCHANGED controllerVars

\* lines 135-139: set padded context to zero and return (context, mask)
MaskContext ==
    /\ pc = "combined"
    /\ context' = MaskRows(context, input_data.mask)
    /\ context_initialized' = TRUE
    /\ pc' = "done"
    /\ UNCHANGED <<err, config, edge_embedding, entity_embedding, weights, input_data,
                   utterances, initial_node_embed, node_embeds, messages, n_lookups,
                   upd_args, n_updates>>
    /\ UNCHANGED controllerVars

Next == ConfigInit \/ BuildModel \/ GetContextInit \/ MpStep \/ Combine \/ MaskContext

Spec == Init /\ [][Next]_vars

(***************************************************************************)
(* GraphEmbedder.update_utterance, lines 198-224                           *)
(***************************************************************************)
\* every entry written to the first batch element
BatchIndFirst(t, E, U) == 0

\* line 216: entry t (from 0) of batch_inds
BatchInd(t, E, U) == t \div (E * U)

\* line 217: entry t (from 0) of node_inds
NodeInd(t, entity_indices, U) == Flatten(entity_indices)[(t \div U) + 1]

\* line 218: entry t (from 0) of utterance_inds
UtteranceInd(t, U) == t % U

\* line 222: tf.reshape(tf.tile(utterance, [1, E]), [-1])
TiledUtterance(utterance, E) ==
    Flatten([b \in 1..Len(utterance) |-> Flatten([e \in 1..E |-> utterance[b]])])

\* a scatter that sums the values of a repeated index
SparseToDenseAccumulate(inds, shape, values) ==
    [b \in 1..shape[1] |-> [r \in 1..shape[2] |-> [u \in 1..shape[3] |->
        SumSeq([t \in 1..Len(inds) |->
            IF inds[t] = <<b - 1, r - 1, u - 1>> THEN values[t] ELSE 0])]]]

SetMax(S) == CHOOSE x \in S : \A y \in S : y <= x

\* line 223: tf.sparse_to_dense(inds, shape, values, validate_indices=False):
\* a tensor of zeros in which values[t] is stored at inds[t], in the order of
\* t, so an index that is repeated keeps the value stored last
SparseToDense(inds, shape, values) ==
    [b \in 1..shape[1] |-> [r \in 1..shape[2] |-> [u \in 1..shape[3] |->
        LET hits == {t \in 1..Len(inds) : inds[t] = <<b - 1, r - 1, u - 1>>}
        IN  IF hits = {} THEN 0 ELSE values[SetMax(hits)]]]]

\* line 224: curr_utterances + new_utterance
TensorAdd(x, y) ==
    [b \in 1..Len(x) |-> [r \in 1..Len(x[b]) |-> VecAdd(x[b][r], y[b][r])]]

Shape(t) == <<Len(t), Len(t[1]), Len(t[1][1])>>

update_utterance(entity_indices, utterance, curr_utterances) ==
    LET B == config.batch_size
        E == config.entity_cache_size
        U == config.utterance_size
        inds == [t \in 1..(B * E * U) |->
                    <<BatchInd(t - 1, E, U), NodeInd(t - 1, entity_indices, U),
                      UtteranceInd(t - 1, U)>>]
        new_utterance == SparseToDense(inds, Shape(curr_utterances),
                                       TiledUtterance(utterance, E))
    IN  TensorAdd(curr_utterances, new_utterance)

\* the row of the cache kept for padded entities: the last one (lines 206-208)
PadRow == NumRows - 1

\* the entity lists of one batch element, and the lists of a whole batch:
\* element b names the rows of the chosen list shifted by b - 1
EntityLists == [1..graph_metadata.entity_cache_size -> 0..(NumRows - 1)]

EntityIndices(batch_size, lst) ==
    [b \in 1..batch_size |-> [e \in 1..Len(lst) |-> (lst[e] + b - 1) % NumRows]]

UtteranceVector(seed, batch_size) ==
    [b \in 1..batch_size |-> [u \in 1..graph_metadata.utterance_size |-> Entry(seed, b, u)]]

ZeroCache(batch_size) ==
    [b \in 1..batch_size |-> [r \in 1..NumRows |-> Zeros(graph_metadata.utterance_size)]]

\* the caller folds a new utterance into the cache it holds
UpdateUtterance ==
    /\ pc = "built"
    /\ n_updates < MaxUpdates
    /\ \E lst \in EntityLists, seed \in Seeds :
          LET entity_indices == EntityIndices(config.batch_size, lst)
              utterance == UtteranceVector(seed, config.batch_size)
          IN  /\ upd_args' = [entity_indices |-> entity_indices,
                              utterance |-> utterance,
                              curr_utterances |-> utterances]
              /\ utterances' = update_utterance(entity_indices, utterance, utterances)
    /\ n_updates' = n_updates + 1
    /\ UNCHANGED <<pc, err, config, edge_embedding, entity_embedding,
                   context_initialized, weights, input_data, initial_node_embed,
                   node_embeds, messages, context, n_lookups>>
    /\ UNCHANGED controllerVars

\* a constructed GraphEmbedder and the cache of a session that starts
InitUpdate ==
    /\ pc = "built"
    /\ err = ""
    /\ \E batch_size \in 1..MaxBatchSize :
          /\ config = GraphEmbedderConfig(1, None, FALSE, 0, "sum", batch_size)
          /\ utterances \in {ZeroCache(batch_size), UtteranceTable(0, batch_size)}
    /\ edge_embedding = Variable(graph_metadata.relation_map_size, edge_embed_size)
    /\ entity_embedding = <<>>
    /\ context_initialized = FALSE
    /\ weights = <<>>
    /\ input_data = <<>>
    /\ initial_node_embed = <<>>
    /\ node_embeds = <<>>
    /\ messages = <<>>
    /\ context = <<>>
    /\ n_lookups = 0
    /\ upd_args = <<>>
    /\ n_updates = 0
    /\ ControllerInit

NextUpdate == UpdateUtterance

SpecUpdate == InitUpdate /\ [][NextUpdate]_vars

(***************************************************************************)
(* BaseController.step and BaseController.set_inactive, called by threads  *)
(* that share one controller.  A list is a mutable object: `lists` holds   *)
(* the contents of every list object and `sessions` names the one that     *)
(* self.sessions refers to.  Each action is one step of one thread.        *)
(***************************************************************************)
\* the agents argument of set_inactive: None, [] (the default), or indices
AgentsArgs == {None, Some(<<>>), Some(<<0>>), Some(<<1>>), Some(<<0, 1>>)}

\* an event returned by the send of the session of `agent`
Event(agent, id) == [agent |-> agent, id |-> id]

\* a lock that never blocks
CanAcquireAlways(l) == TRUE

\* lines 71, 110: `with self.lock` blocks while another thread holds the lock
CanAcquire(l) == l = None

\* the elements of a list of indices
Indices(agents) == {agents[i] : i \in 1..Len(agents)}

\* lines 111-117: the list objects and self.sessions after the body of set_inactive
set_inactive(ls, ref, agents) ==
    IF agents = None
    THEN [lists |-> ls, sessions |-> ref]
    ELSE IF Len(agents[1]) = 0
    THEN [lists |-> Append(ls, [i \in 1..Len(ls[ref]) |-> None]),
          sessions |-> Len(ls) + 1]
    ELSE [lists |-> [ls EXCEPT ![ref] =
                        [i \in 1..Len(@) |->
                            IF (i - 1) \in Indices(agents[1]) THEN None ELSE @[i]]],
          sessions |-> ref]

\* line 73: the session the outer loop of step is at
Session(f) == lists[f.iter][f.agent + 1]

\* line 87: the session the inner loop of step is at
OtherSession(f) == lists[f.inner][f.partner + 1]

\* a thread calls step(backend=None)
StepCall(t) ==
    /\ tpc[t] = "idle"
    /\ n_calls < MaxCalls
    /\ n_calls' = n_calls + 1
    /\ tpc' = [tpc EXCEPT ![t] = "step_lock"]
    /\ frame' = [frame EXCEPT ![t] = [NoFrame EXCEPT !.op = "step"]]
    /\ outcome' = [outcome EXCEPT ![t] = ""]
    /\ UNCHANGED <<lock, lists, sessions, events, callbacks, received, n_sent>>
    /\ UNCHANGED embedderVars

\* line 71 and line 73: take the lock, start enumerate(self.sessions)
StepAcquire(t) ==
    /\ tpc[t] = "step_lock"
    /\ CanAcquire(lock)
    /\ lock' = Some(t)
    /\ tpc' = [tpc EXCEPT ![t] = "step_loop"]
    /\ frame' = [frame EXCEPT ![t].iter = sessions, ![t].agent = 0]
    /\ UNCHANGED <<lists, sessions, events, callbacks, received, n_sent, n_calls,
                   outcome>>
    /\ UNCHANGED embedderVars

\* line 73: the outer loop is exhausted; the with block releases the lock
StepReturn(t) ==
    /\ tpc[t] = "step_loop"
    /\ frame[t].agent = Len(lists[frame[t].iter])
    /\ lock' = None
    /\ tpc' = [tpc EXCEPT ![t] = "idle"]
    /\ frame' = [frame EXCEPT ![t] = NoFrame]
    /\ outcome' = [outcome EXCEPT ![t] = "returned"]
    /\ UNCHANGED <<lists, sessions, events, callbacks, received, n_sent, n_calls>>
    /\ UNCHANGED embedderVars

\* lines 74-77: a session that is None is skipped
StepSkip(t) ==
    /\ tpc[t] = "step_loop"
    /\ frame[t].agent < Len(lists[frame[t].iter])
    /\ Session(frame[t]) = None
    /\ frame' = [frame EXCEPT ![t].agent = @ + 1]
    /\ UNCHANGED <<lock, lists, sessions, events, callbacks, received, n_sent,
                   n_calls, tpc, outcome>>
    /\ UNCHANGED embedderVars

\* lines 78-80: session.send() returns None
StepSendNone(t) ==
    /\ tpc[t] = "step_loop"
    /\ frame[t].agent < Len(lists[frame[t].iter])
    /\ Session(frame[t]) # None
    /\ frame' = [frame EXCEPT ![t].agent = @ + 1]
    /\ UNCHANGED <<lock, lists, sessions, events, callbacks, received, n_sent,
                   n_calls, tpc, outcome>>
    /\ UNCHANGED embedderVars

\* lines 78-79: session.send() returns an event
StepSendEvent(t) ==
    /\ tpc[t] = "step_loop"
    /\ frame[t].agent < Len(lists[frame[t].iter])
    /\ Session(frame[t]) # None
    /\ n_sent < MaxEvents
    /\ n_sent' = n_sent + 1
    /\ frame' = [frame EXCEPT ![t].event = Some(Event(Session(frame[t])[1], n_sent + 1))]
    /\ tpc' = [tpc EXCEPT ![t] = "step_callback"]
    /\ UNCHANGED <<lock, lists, sessions, events, callbacks, received, n_calls,
                   outcome>>
    /\ UNCHANGED embedderVars

\* line 82: self.event_callback(event)
StepCallback(t) ==
    /\ tpc[t] = "step_callback"
    /\ callbacks' = Append(callbacks, frame[t].event[1])
    /\ tpc' = [tpc EXCEPT ![t] = "step_append"]
    /\ UNCHANGED <<lock, lists, sessions, events, received, n_sent, n_calls, frame,
                   outcome>>
    /\ UNCHANGED embedderVars

\* lines 83-87: self.events.append(event); backend is None; start
\* enumerate(self.sessions) of the inner loop
StepAppend(t) ==
    /\ tpc[t] = "step_append"
    /\ events' = Append(events, frame[t].event[1])
    /\ frame' = [frame EXCEPT ![t].inner = sessions, ![t].partner = 0]
    /\ tpc' = [tpc EXCEPT ![t] = "step_receive"]
    /\ UNCHANGED <<lock, lists, sessions, callbacks, received, n_sent, n_calls,
                   outcome>>
    /\ UNCHANGED embedderVars

\* line 88: the sender itself is passed over
StepPassSelf(t) ==
    /\ tpc[t] = "step_receive"
    /\ frame[t].partner < Len(lists[frame[t].inner])
    /\ frame[t].partner = frame[t].agent
    /\ frame' = [frame EXCEPT ![t].partner = @ + 1]
    /\ UNCHANGED <<lock, lists, sessions, events, callbacks, received, n_sent,
                   n_calls, tpc, outcome>>
    /\ UNCHANGED embedderVars

\* line 89: other_session.receive(event) on a session object
StepReceive(t) ==
    /\ tpc[t] = "step_receive"
    /\ frame[t].partner < Len(lists[frame[t].inner])
    /\ frame[t].partner # frame[t].agent
    /\ OtherSession(frame[t]) # None
    /\ received' = Append(received, [event |-> frame[t].event[1],
                                     to |-> OtherSession(frame[t])[1]])
    /\ frame' = [frame EXCEPT ![t].partner = @ + 1]
    /\ UNCHANGED <<lock, lists, sessions, events, callbacks, n_sent, n_calls, tpc,
                   outcome>>
    /\ UNCHANGED embedderVars

\* line 89: other_session is None, which has no attribute receive: the
\* AttributeError leaves the with block, which releases the lock, and step
StepReceiveRaises(t) ==
    /\ tpc[t] = "step_receive"
    /\ frame[t].partner < Len(lists[frame[t].inner])
    /\ frame[t].partner # frame[t].agent
    /\ OtherSession(frame[t]) = None
    /\ lock' = None
    /\ tpc' = [tpc EXCEPT ![t] = "idle"]
    /\ frame' = [frame EXCEPT ![t] = NoFrame]
    /\ outcome' = [outcome EXCEPT ![t] = "AttributeError"]
    /\ UNCHANGED <<lists, sessions, events, callbacks, received, n_sent, n_calls>>
    /\ UNCHANGED embedderVars

\* line 87: the inner loop is exhausted; the outer loop goes on
StepDelivered(t) ==
    /\ tpc[t] = "step_receive"
    /\ frame[t].partner = Len(lists[frame[t].inner])
    /\ frame' = [frame EXCEPT ![t].agent = @ + 1, ![t].event = None,
                              ![t].inner = 0, ![t].partner = 0]
    /\ tpc' = [tpc EXCEPT ![t] = "step_loop"]
    /\ UNCHANGED <<lock, lists, sessions, events, callbacks, received, n_sent,
                   n_calls, outcome>>
    /\ UNCHANGED embedderVars

\* a thread calls set_inactive(agents)
SetInactiveCall(t) ==
    /\ tpc[t] = "idle"
    /\ n_calls < MaxCalls
    /\ n_calls' = n_calls + 1
    /\ \E agents \in AgentsArgs :
          frame' = [frame EXCEPT ![t] = [NoFrame EXCEPT !.op = "set_inactive",
                                                        !.agents = agents]]
    /\ tpc' = [tpc EXCEPT ![t] = "inactive_lock"]
    /\ UNCHANGED <<lock, lists, sessions, events, callbacks, received, n_sent,
                   outcome>>
    /\ UNCHANGED embedderVars

\* line 110: take the lock
SetInactiveAcquire(t) ==
    /\ tpc[t] = "inactive_lock"
    /\ CanAcquire(lock)
    /\ lock' = Some(t)
    /\ tpc' = [tpc EXCEPT ![t] = "inactive_body"]
    /\ UNCHANGED <<lists, sessions, events, callbacks, received, n_sent, n_calls,
                   frame, outcome>>
    /\ UNCHANGED embedderVars

\* lines 111-117: the body, then the with block releases the lock
SetInactiveBody(t) ==
    /\ tpc[t] = "inactive_body"
    /\ LET after == set_inactive(lists, sessions, frame[t].agents)
       IN  /\ lists' = after.lists
           /\ sessions' = after.sessions
    /\ lock' = None
    /\ tpc' = [tpc EXCEPT ![t] = "idle"]
    /\ frame' = [frame EXCEPT ![t] = NoFrame]
    /\ UNCHANGED <<events, callbacks, received, n_sent, n_calls, outcome>>
    /\ UNCHANGED embedderVars

NextController ==
    \E t \in Threads :
        \/ StepCall(t)
        \/ StepAcquire(t)
        \/ StepReturn(t)
        \/ StepSkip(t)
        \/ StepSendNone(t)
        \/ StepSendEvent(t)
        \/ StepCallback(t)
        \/ StepAppend(t)
        \/ StepPassSelf(t)
        \/ StepReceive(t)
        \/ StepReceiveRaises(t)
        \/ StepDelivered(t)
        \/ SetInactiveCall(t)
        \/ SetInactiveAcquire(t)
        \/ SetInactiveBody(t)

SpecController == Init /\ [][NextController]_vars

(***************************************************************************)
(* Properties                                                              *)
(***************************************************************************)
Configured == pc \notin {"start", "config_error"}

Returned == pc = "done"

BatchIdx == 1..config.batch_size

NodeIdx == 1..NumNodes

\* C1: the context returned by get_context has an all-zero row at every node
\* slot whose mask entry is false, for every mp_iters and both combiners.
C1_MaskedRowsAreZero ==
    Returned =>
        \A b \in BatchIdx, i \in NodeIdx :
            ~input_data.mask[b][i] =>
                \A d \in 1..Len(context[b][i]) : context[b][i][d] = 0

\* a masked slot whose embeddings are not zero before the mask is applied
C1_Witness ==
    /\ Returned
    /\ config.mp_iters > 0
    /\ \E b \in BatchIdx, i \in NodeIdx :
          /\ ~input_data.mask[b][i]
          /\ \E d \in 1..config.node_embed_size :
                /\ initial_node_embed[b][i][d] # 0
                /\ node_embeds[1][b][i][d] # 0

\* C5: an unknown message_combiner raises at construction and leaves no config
\* object; every constructed config has the combiner concat or sum, and
\* get_context never reaches its own unknown-combiner error.
C5_CombinerValidated ==
    /\ pc = "config_error" => (config = <<>> /\ err = "Unknown message combiner")
    /\ Configured => config.message_combiner \in {"concat", "sum"}
    /\ pc # "context_error"
    /\ err # "Unknown message combining method"

\* get_context went through its combiner dispatch with a constructed config
C5_Witness ==
    /\ pc = "combined"
    /\ config.message_combiner = "sum"
    /\ err = ""

\* C6: context_size is node_embed_size * (mp_iters + 1) for concat and
\* node_embed_size for sum, and every row of the context get_context returns
\* has that width.
C6_ContextSize ==
    /\ Configured =>
          /\ config.message_combiner = "concat" =>
                config.context_size = config.node_embed_size * (config.mp_iters + 1)
          /\ config.message_combiner = "sum" =>
                config.context_size = config.node_embed_size
    /\ Returned =>
          \A b \in BatchIdx, i \in NodeIdx : Len(context[b][i]) = config.context_size

\* a returned concat context over more than one iteration, a returned sum is
\* covered by the same formula
C6_Witness ==
    /\ Returned
    /\ config.message_combiner = "concat"
    /\ config.mp_iters = 2
    /\ config.node_embed_size = 2
    /\ Len(context[1][1]) = 6

\* C7: with mp_iters = 0 the returned context is the initial node embedding
\* multiplied by the mask, for both combiners, and no path embedding or message
\* passing step has been computed.
C7_ZeroItersIsMaskedInitial ==
    (Returned /\ config.mp_iters = 0) =>
        /\ messages = <<>>
        /\ node_embeds = <<>>
        /\ \A b \in BatchIdx, i \in NodeIdx :
              /\ Len(context[b][i]) = config.node_embed_size
              /\ \A d \in 1..config.node_embed_size :
                    context[b][i][d] =
                        IF input_data.mask[b][i] THEN initial_node_embed[b][i][d] ELSE 0

\* a returned sum context with no iteration and an unmasked row that is not zero
C7_Witness ==
    /\ Returned
    /\ config.mp_iters = 0
    /\ config.message_combiner = "sum"
    /\ \E b \in BatchIdx, i \in NodeIdx :
          /\ input_data.mask[b][i]
          /\ \E d \in 1..config.node_embed_size : context[b][i][d] # 0

\* the entries of a neighbor list that are not the padding path
NonPad(list, pad) == SelectSeq(list, LAMBDA x : x # pad)

\* C8: in pass_message the validity mask is false exactly at the neighbor
\* entries equal to pad_path_id, the new embedding of a node is the sum of the
\* path embeddings at its non-pad neighbor indices, and a node whose every
\* neighbor index is pad_path_id gets an all-zero embedding, whatever the path
\* embedding at row pad_path_id is.
C8_MessageIsSumOverNonPad ==
    pc \in {"scan", "combined", "done"} =>
        \A k \in 1..Len(node_embeds) : \A b \in BatchIdx, n \in NodeIdx :
            LET list == input_data.node_paths[b][n]
                real == NonPad(list, config.pad_path_id)
            IN  /\ \A j \in 1..Len(list) :
                      (NeighborMask(list[j], config.pad_path_id) = 0)
                          <=> (list[j] = config.pad_path_id)
                /\ \A d \in 1..config.node_embed_size :
                      node_embeds[k][b][n][d] =
                          SumSeq([j \in 1..Len(real) |-> messages[k][b][real[j] + 1][d]])
                /\ real = <<>> => node_embeds[k][b][n] = Zeros(config.node_embed_size)

\* one node has only padding neighbors while the embedding of the padding path
\* is not zero, and another node has a padding and a real neighbor
C8_Witness ==
    /\ pc = "scan"
    /\ Len(node_embeds) = 1
    /\ \E b \in BatchIdx, n \in NodeIdx, m \in NodeIdx :
          /\ NonPad(input_data.node_paths[b][n], config.pad_path_id) = <<>>
          /\ \A d \in 1..config.node_embed_size :
                messages[1][b][config.pad_path_id + 1][d] # 0
          /\ Len(NonPad(input_data.node_paths[b][m], config.pad_path_id)) = 1
          /\ node_embeds[1][b][m] # Zeros(config.node_embed_size)

\* element k of the sequence of node embeddings, k = 0 the initializer output
Element(k) == IF k = 0 THEN initial_node_embed ELSE node_embeds[k]

\* C9: get_context builds a sequence of mp_iters + 1 node embeddings, element 0
\* the initializer output and element k the result of pass_message on
\* embed_path of element k - 1; with concat, block k of an unmasked row of the
\* context is element k of that node: zero for k >= 1 at a node with no real
\* neighbor, and at a node with a single real neighbor the embedding of that
\* path computed from the previous element.
C9_SequentialIterations ==
    pc \in {"scan", "combined", "done"} =>
        /\ Len(node_embeds) <= config.mp_iters
        /\ pc # "scan" => Len(node_embeds) = config.mp_iters
        /\ \A k \in 1..Len(node_embeds) :
              (Returned \/ k = Len(node_embeds)) =>
                  node_embeds[k] =
                      pass_message(embed_path(Element(k - 1), edge_embedding,
                                              input_data.paths),
                                   input_data.node_paths, config.pad_path_id)
        /\ (Returned /\ config.message_combiner = "concat") =>
              \A b \in BatchIdx, i \in NodeIdx : input_data.mask[b][i] =>
                  \A k \in 0..config.mp_iters :
                      LET block == SubSeq(context[b][i], k * config.node_embed_size + 1,
                                          (k + 1) * config.node_embed_size)
                          real == NonPad(input_data.node_paths[b][i], config.pad_path_id)
                      IN  /\ block = Element(k)[b][i]
                          /\ (k >= 1 /\ real = <<>>) =>
                                block = Zeros(config.node_embed_size)
                          /\ (k >= 1 /\ Len(real) = 1) =>
                                block = embed_path(Element(k - 1), edge_embedding,
                                                   input_data.paths)[b][real[1] + 1]

\* the scenario: one graph, two unmasked nodes, one path to node 1 in the
\* neighbor list of node 0 only, mp_iters = 1, concat
C9_Witness ==
    /\ Returned
    /\ config.batch_size = 1
    /\ config.mp_iters = 1
    /\ config.message_combiner = "concat"
    /\ input_data.mask[1] = <<TRUE, TRUE>>
    /\ input_data.node_paths[1][1] = <<1, 0>>
    /\ NonPad(input_data.node_paths[1][2], config.pad_path_id) = <<>>
    /\ input_data.paths[1][2][3] = 1
    /\ SubSeq(context[1][2], config.node_embed_size + 1, 2 * config.node_embed_size)
           = Zeros(config.node_embed_size)
    /\ SubSeq(context[1][1], config.node_embed_size + 1, 2 * config.node_embed_size)
           # Zeros(config.node_embed_size)

\* the batch with the first field of every path triple replaced by c
WithFirstField(data, c) ==
    [data EXCEPT !.paths = [b \in 1..Len(data.paths) |->
        [p \in 1..Len(data.paths[b]) |-> <<c, data.paths[b][p][2], data.paths[b][p][3]>>]]]

\* C10: the context and the mask returned by get_context do not depend on the
\* first field of any path triple: with the first fields replaced, the initial
\* embedding and every message passing step give the embeddings of this call,
\* and the context is the masked combination of those.
C10_FirstFieldIsNotRead ==
    Returned =>
        \A c \in {0, NumNodes - 1} :
            LET other == WithFirstField(input_data, c)
                embeds == EmbedList(initial_node_embed, node_embeds)
            IN  /\ InitialNodeEmbed(config, other, utterances, entity_embedding,
                                    weights.init) = initial_node_embed
                /\ \A k \in 1..config.mp_iters :
                      mp(Element(k - 1), other, config) = node_embeds[k]
                /\ context = MaskRows(IF config.message_combiner = "concat"
                                      THEN Concat2(embeds) ELSE AddNTensors(embeds),
                                      other.mask)
                /\ other.mask = input_data.mask

\* a returned context with messages passed along a path whose first field
\* differs from its target
C10_Witness ==
    /\ Returned
    /\ config.mp_iters >= 1
    /\ \E b \in BatchIdx, i \in NodeIdx :
          /\ input_data.mask[b][i]
          /\ input_data.paths[b][2][1] # input_data.paths[b][2][3]
          /\ input_data.node_paths[b][i][1] = 1
          /\ node_embeds[1][b][i] # Zeros(config.node_embed_size)

Updated == pc = "built" /\ n_updates > 0

CacheRows == 1..NumRows

\* the number of slots of an entity list that name row r (from 0)
Occurrences(list, r) == Len(SelectSeq(list, LAMBDA x : x = r))

\* C2 as stated: every returned cache row is the input row plus the utterance
\* vector multiplied by the number of times the row occurs in the element's
\* entity_indices, so [a, a] adds the utterance vector twice to row a.
C2_Original ==
    Updated =>
        \A b \in BatchIdx, r \in CacheRows :
            utterances[b][r] =
                VecAdd(upd_args.curr_utterances[b][r],
                       VecScale(Occurrences(upd_args.entity_indices[b], r - 1),
                                upd_args.utterance[b]))

\* C2 as amended: every returned cache row is the input row plus the utterance
\* vector when the row occurs in the element's entity_indices, however often
\* and in whatever order, and the input row when it does not occur; [a, a]
\* adds the utterance vector once to row a.
C2_AddsOncePerNamedRow ==
    Updated =>
        \A b \in BatchIdx, r \in CacheRows :
            utterances[b][r] =
                IF Occurrences(upd_args.entity_indices[b], r - 1) > 0
                THEN VecAdd(upd_args.curr_utterances[b][r], upd_args.utterance[b])
                ELSE upd_args.curr_utterances[b][r]

\* indices [a, a] for an entity row a that was not zero, with an utterance
\* vector that is not zero
C2_Witness ==
    /\ Updated
    /\ \E b \in BatchIdx :
          LET a == upd_args.entity_indices[b][1]
          IN  /\ a # PadRow
              /\ Occurrences(upd_args.entity_indices[b], a) = 2
              /\ \A u \in 1..config.utterance_size :
                    /\ upd_args.utterance[b][u] # 0
                    /\ upd_args.curr_utterances[b][a + 1][u] # 0

\* C3: slots equal to the padding row change only the padding row: a row that
\* is not the padding row and is not named by a non-padding slot of the element
\* keeps its value, whatever the other batch elements name.
C3_PaddingSlotsTouchOnlyPadRow ==
    Updated =>
        \A b \in BatchIdx, r \in CacheRows :
            (r - 1 # PadRow
                /\ Occurrences(NonPad(upd_args.entity_indices[b], PadRow), r - 1) = 0)
            => utterances[b][r] = upd_args.curr_utterances[b][r]

\* an element whose slots are all padding, while another element names an
\* entity row of its own with an utterance that is not zero
C3_Witness ==
    /\ Updated
    /\ \E b \in BatchIdx, o \in BatchIdx :
          /\ b # o
          /\ NonPad(upd_args.entity_indices[b], PadRow) = <<>>
          /\ Len(upd_args.entity_indices[b]) = 2
          /\ \E r \in CacheRows :
                /\ Occurrences(upd_args.entity_indices[o], r - 1) > 0
                /\ r - 1 # PadRow
                /\ utterances[o][r] # upd_args.curr_utterances[o][r]
          /\ \E u \in 1..config.utterance_size : upd_args.utterance[b][u] # 0

UsesEntities == config.use_entity_embedding

NoEntitySize == config.use_entity_embedding /\ config.entity.entity_embed_size = None

\* C4 as stated: constructing a config with use_entity_embedding and no
\* entity_embed_size fails, so no such config object exists.
C4_Original ==
    Configured => ~NoEntitySize

\* C4 as amended: GraphEmbedderConfig accepts use_entity_embedding without an
\* entity_embed_size and stores None; the error is raised when build_model
\* creates the entity table, after the edge table, and before get_context
\* issues any entity lookup.
C4_FailsInBuildModel ==
    /\ (Configured /\ NoEntitySize) =>
          /\ pc \in {"configured", "build_error"}
          /\ entity_embedding = <<>>
          /\ n_lookups = 0
    /\ pc = "build_error" =>
          /\ NoEntitySize
          /\ edge_embedding # <<>>
          /\ err = "Shape of a new variable must be fully defined"
    /\ n_lookups > 0 => (UsesEntities /\ entity_embedding # <<>>)

\* build_model has raised for a config that was constructed
C4_Witness ==
    /\ pc = "build_error"
    /\ NoEntitySize
    /\ config.message_combiner = "concat"

(***************************************************************************)
(* Properties of BaseController.step and set_inactive.                     *)
(***************************************************************************)
\* the list self.sessions refers to
CurrentSessions == lists[sessions]

SomeSessionNone == \E i \in 1..Len(CurrentSessions) : CurrentSessions[i] = None

BothLive == \A i \in 1..Len(CurrentSessions) : CurrentSessions[i] # None

\* the thread is inside the with block of step
InStep(t) == tpc[t] \in {"step_loop", "step_callback", "step_append", "step_receive"}

\* the thread is inside the with block of set_inactive
InSetInactive(t) == tpc[t] = "inactive_body"

\* the thread holds an event that send returned and that is not yet delivered
Handling(t) == tpc[t] \in {"step_callback", "step_append", "step_receive"}

\* C11 (as stated): once set_inactive has set some session to None, no call
\* of step ends with an error, and step never reaches a call of receive on a
\* session that is None.
C11_Original ==
    SomeSessionNone =>
        \A t \in Threads :
            /\ outcome[t] # "AttributeError"
            /\ (tpc[t] = "step_receive"
                /\ frame[t].partner < Len(lists[frame[t].inner])
                /\ frame[t].partner # frame[t].agent)
               => OtherSession(frame[t]) # None

\* one session was set to None, the other sent an event: step logged the
\* event, delivered it to nobody and ended with AttributeError
C11_Witness ==
    /\ SomeSessionNone
    /\ ~ BothLive
    /\ \E t \in Threads : outcome[t] = "AttributeError"
    /\ Len(events) = Len(received) + 1
    /\ callbacks = events

\* the delivery step makes of an event: to the session of the other agent
Delivery(e) == [event |-> e, to |-> 1 - e.agent]

Deliveries(log) == [i \in 1..Len(log) |-> Delivery(log[i])]

NoDuplicates(log) == \A i, j \in 1..Len(log) : i # j => log[i] # log[j]

\* what a thread that handles the event e has done with it so far
HandledSoFar(t, prior, e) ==
    /\ e.id = n_sent
    /\ callbacks = IF tpc[t] = "step_callback" THEN prior ELSE Append(prior, e)
    /\ events = IF tpc[t] = "step_receive" THEN Append(prior, e) ELSE prior
    /\ received = IF tpc[t] = "step_receive" /\ frame[t].partner > 1 - e.agent
                  THEN Deliveries(Append(prior, e))
                  ELSE Deliveries(prior)

\* while both sessions are live: at most one thread is inside a with block;
\* every event send returned so far was passed to event_callback, logged once
\* and delivered once to the other session, in the same order, except the one
\* event the thread inside step is handling, which is the newest
C12_EventsHandledOneByOne ==
    BothLive =>
        /\ Cardinality({t \in Threads : InStep(t) \/ InSetInactive(t)}) <= 1
        /\ NoDuplicates(events)
        /\ IF \A t \in Threads : ~ Handling(t)
           THEN /\ Len(events) = n_sent
                /\ callbacks = events
                /\ received = Deliveries(events)
           ELSE \E t \in Threads :
                   /\ Handling(t)
                   /\ LET e == frame[t].event[1]
                      IN  HandledSoFar(t, SelectSeq(callbacks, LAMBDA x : x # e), e)

\* a step that changes self.sessions or a list object is taken while no
\* thread is inside step
C12_SessionsStableInStep ==
    (sessions' # sessions \/ lists' # lists) => \A t \in Threads : ~ InStep(t)

\* C12: with both sessions live, under every interleaving of step and
\* set_inactive calls, each event a send returns is passed to event_callback,
\* appended to events once and delivered once to the other session before any
\* other event is handled, so the log and the deliveries have the same order;
\* and set_inactive never changes sessions while a thread is inside step.
C12_LockMakesStepAtomic ==
    [] C12_EventsHandledOneByOne /\ [][C12_SessionsStableInStep]_vars

\* both sessions live, one event delivered, a second one being delivered by
\* a thread inside step while another thread waits to enter set_inactive
C12_Witness ==
    /\ BothLive
    /\ Len(received) = 1
    /\ Len(events) = 2
    /\ \E t, u \in Threads :
          /\ tpc[t] = "step_receive"
          /\ tpc[u] = "inactive_lock"
          /\ frame[u].agents # None

====
